---- MODULE Spec2Model ----
(***************************************************************************)
(* Model of philoagents-ui/sclicer.py: an LPC sprite sheet is cut into     *)
(* frames (slice_frames), the frames are packed into an atlas bitmap       *)
(* (paste_frames_to_atlas) and main writes atlas.png and atlas.json.       *)
(*                                                                         *)
(* An image is a record [w, h, px] where px maps every <<x, y>> with       *)
(* 0 <= x < w, 0 <= y < h to a pixel value.  Pixel 0 is RGBA (0,0,0,0).    *)
(***************************************************************************)
EXTENDS Integers, Sequences, FiniteSets, TLC

VARIABLES
    args,         \* the parsed command line (main, lines 39-54)
    pc,           \* position of the run
    sheet,        \* the loaded RGBA sheet (line 56), NoImage before
    frames,       \* the local `frames` of a walk-cycle pass / paste input
    images,       \* main's `images`
    name_order,   \* main's `name_order`
    atlas,        \* the atlas bitmap
    rects,        \* the rect list
    frames_json,  \* the insertion-ordered dict `frames_json`
    fs,           \* the two output files: [png, json], each absent/partial/complete
    err,          \* what stopped the run ("" while it runs)
    unit          \* inputs of the function-level runs (unused by main)

vars == <<args, pc, sheet, frames, images, name_order, atlas, rects, frames_json, fs, err, unit>>

----------------------------------------------------------------------------
(* Bounds of the model *)

MaxWalk == 9
MaxCol == 1
MaxAtlasCols == 3
MaxDrop == 1
MaxParFrames == 4
SheetW == 9
SheetH == 3

(* Program constants *)

Transparent == 0
PadRequested == 9
PadAvailable == 8
IndexWidth == 4

Ids == {"hero", "a"}
FrameSizes == {<<1, 1>>, <<2, 1>>, <<1, 2>>}
\* <<front, back, left, right>> rows; the last one reads below the sheet
RowChoices == {<<0, 1, 2, 0>>, <<1, 1, 0, 2>>, <<2, 0, 1, 4>>}
Dirs == <<"front", "back", "left", "right">>

NoImage == [w |-> 0, h |-> 0, px |-> <<>>]

----------------------------------------------------------------------------
(* Images *)

Pixels(w, h) == (0 .. (w - 1)) \X (0 .. (h - 1))

\* Image.new("RGBA", (w, h), (0, 0, 0, 0))
NewImage(w, h) == [w |-> w, h |-> h, px |-> [p \in Pixels(w, h) |-> Transparent]]

GetPixel(img, x, y) ==
    IF x \in 0 .. (img.w - 1) /\ y \in 0 .. (img.h - 1)
    THEN img.px[<<x, y>>]
    ELSE Transparent

\* Image.crop((l, u, r, b)): a copy; what lies outside the image is transparent
crop(img, l, u, r, b) ==
    [w |-> r - l, h |-> b - u,
     px |-> [p \in Pixels(r - l, b - u) |-> GetPixel(img, l + p[1], u + p[2])]]

\* Image.paste(frame, (x, y)) without a mask: the frame's pixels replace the region
paste(img, frame, x, y) ==
    [img EXCEPT !.px =
        [p \in Pixels(img.w, img.h) |->
            IF /\ p[1] \in x .. (x + frame.w - 1)
               /\ p[2] \in y .. (y + frame.h - 1)
            THEN frame.px[<<p[1] - x, p[2] - y>>]
            ELSE img.px[p]]]

\* The decoded input: every pixel of the sheet has its own value
LoadedSheet ==
    [w |-> SheetW, h |-> SheetH,
     px |-> [p \in Pixels(SheetW, SheetH) |-> 1 + p[1] + p[2] * SheetW]]

----------------------------------------------------------------------------
(* slice_frames, lines 14-21 *)

\* (faulty variant) the column offset is added after scaling
FrameAt_Unscaled(sh, frame_w, frame_h, row, start_col, i) ==
    LET x == start_col * frame_w + i
        y == row * frame_h
    IN crop(sh, x, y, x + frame_w, y + frame_h)

\* lines 17-20: the crop appended for loop index i
FrameAt(sh, frame_w, frame_h, row, start_col, i) ==
    LET x == (start_col + i) * frame_w
        y == row * frame_h
    IN crop(sh, x, y, x + frame_w, y + frame_h)

\* for i in range(count): frames.append(...); range(count) is empty for count <= 0
slice_frames(sh, frame_w, frame_h, row, start_col, count) ==
    [k \in 1 .. count |-> FrameAt(sh, frame_w, frame_h, row, start_col, k - 1)]

----------------------------------------------------------------------------
(* paste_frames_to_atlas, lines 23-36 *)

\* (faulty variant) floor instead of ceiling
CeilDiv_Floor(n, cols) == n \div cols

\* math.ceil(n / cols) for n >= 0, cols >= 1
CeilDiv(n, cols) == (n + cols - 1) \div cols

AtlasSize(n, frame_w, frame_h, cols) ==
    <<cols * frame_w, CeilDiv(n, cols) * frame_h>>

\* (faulty variant) the grid row taken with % as well
CellOrigin_ModBoth(idx, frame_w, frame_h, cols) ==
    <<(idx % cols) * frame_w, (idx % cols) * frame_h>>

\* (faulty variant) the grid row counted in rows of cols + 1 cells
CellOrigin_WideRow(idx, frame_w, frame_h, cols) ==
    <<(idx % cols) * frame_w, (idx \div (cols + 1)) * frame_h>>

\* lines 30-33: the destination of frame idx (0-based)
CellOrigin(idx, frame_w, frame_h, cols) ==
    <<(idx % cols) * frame_w, (idx \div cols) * frame_h>>

\* lines 34-35 for frame idx: where it is pasted and the rect recorded for it
RectOf(idx, frame_w, frame_h, cols) ==
    LET o == CellOrigin(idx, frame_w, frame_h, cols)
    IN <<o[1], o[2], frame_w, frame_h>>

\* whether atlas.paste(fr[idx], origin of idx) writes pixel p
Covers(fr, idx, p, frame_w, frame_h, cols) ==
    LET o == CellOrigin(idx, frame_w, frame_h, cols)
    IN /\ p[1] \in o[1] .. (o[1] + fr[idx + 1].w - 1)
       /\ p[2] \in o[2] .. (o[2] + fr[idx + 1].h - 1)

\* The loop of lines 29-35 run for idx = 0, 1, ...: a pixel ends with the value
\* of the last paste that wrote it, and stays transparent when none did.
PastedPixel(fr, p, frame_w, frame_h, cols) ==
    LET hits == {idx \in 0 .. (Len(fr) - 1) : Covers(fr, idx, p, frame_w, frame_h, cols)}
    IN IF hits = {}
       THEN Transparent
       ELSE LET last == CHOOSE i \in hits : \A j \in hits : j <= i
                o == CellOrigin(last, frame_w, frame_h, cols)
            IN fr[last + 1].px[<<p[1] - o[1], p[2] - o[2]>>]

paste_frames_to_atlas(fr, frame_w, frame_h, cols) ==
    LET size == AtlasSize(Len(fr), frame_w, frame_h, cols)
    IN [atlas |-> [w |-> size[1], h |-> size[2],
                   px |-> [p \in Pixels(size[1], size[2]) |->
                              PastedPixel(fr, p, frame_w, frame_h, cols)]],
        rects |-> [k \in 1 .. Len(fr) |-> RectOf(k - 1, frame_w, frame_h, cols)]]

----------------------------------------------------------------------------
(* Names, lines 69 and 80 *)

\* f"{i:04d}" for i >= 0
Format04d(i) ==
    LET s == ToString(i)
    IN IF Len(s) >= IndexWidth
       THEN s
       ELSE SubSeq("0000", 1, IndexWidth - Len(s)) \o s

StaticName(id, dir_key) == id \o "-" \o dir_key

\* (faulty variant) 1-based walk index
WalkName_OneBased(id, dir_key, i) == id \o "-" \o dir_key \o "-walk-" \o Format04d(i + 1)

\* (faulty variant) the direction left out of the walk name
WalkName_NoDir(id, dir_key, i) == id \o "-walk-" \o Format04d(i)

WalkName(id, dir_key, i) == id \o "-" \o dir_key \o "-walk-" \o Format04d(i)

\* (faulty variant) rows paired in the order of the command-line options
RowOf_OptionOrder(a, dir_key) ==
    CASE dir_key = "front" -> a.front_row
      [] dir_key = "back"  -> a.left_row
      [] dir_key = "left"  -> a.right_row
      [] dir_key = "right" -> a.back_row

\* the row of a direction, as the lists of lines 63-64 and 72-73 pair them
RowOf(a, dir_key) ==
    CASE dir_key = "front" -> a.front_row
      [] dir_key = "back"  -> a.back_row
      [] dir_key = "left"  -> a.left_row
      [] dir_key = "right" -> a.right_row

----------------------------------------------------------------------------
(* main: collecting frames and names, lines 59-80 *)

\* lines 63-69
RECURSIVE StaticPoses(_, _, _, _)
StaticPoses(sh, a, d, st) ==
    IF d > Len(Dirs)
    THEN st
    ELSE LET x == a.static_col * a.frame_width
             y == RowOf(a, Dirs[d]) * a.frame_height
             static_img == crop(sh, x, y, x + a.frame_width, y + a.frame_height)
         IN StaticPoses(sh, a, d + 1,
                [images |-> Append(st.images, static_img),
                 names  |-> Append(st.names, StaticName(a.id, Dirs[d]))])

\* (faulty variant) pads with the first frame
Reconcile_First(walk_frames, fr) ==
    IF walk_frames = PadRequested /\ Len(fr) = PadAvailable
    THEN Append(fr, fr[1])
    ELSE fr

\* lines 76-77
Reconcile(walk_frames, fr) ==
    IF walk_frames = PadRequested /\ Len(fr) = PadAvailable
    THEN Append(fr, fr[Len(fr)])
    ELSE fr

\* lines 78-80: for i, img in enumerate(frames): append img, append its name
NameFrames(id, dir_key, fr, st) ==
    [images |-> st.images \o fr,
     names  |-> st.names \o [k \in 1 .. Len(fr) |-> WalkName(id, dir_key, k - 1)]]

\* lines 72-80
RECURSIVE WalkCycles(_, _, _, _)
WalkCycles(sh, a, d, st) ==
    IF d > Len(Dirs)
    THEN st
    ELSE LET fr == slice_frames(sh, a.frame_width, a.frame_height,
                                RowOf(a, Dirs[d]), a.start_col, a.walk_frames)
         IN WalkCycles(sh, a, d + 1,
                NameFrames(a.id, Dirs[d], Reconcile(a.walk_frames, fr), st))

----------------------------------------------------------------------------
(* main: the manifest, lines 86-94 *)

\* frames_json[name] = {...}, lines 88-94
Entry(r) ==
    [frame            |-> [x |-> r[1], y |-> r[2], w |-> r[3], h |-> r[4]],
     rotated          |-> FALSE,
     trimmed          |-> FALSE,
     spriteSourceSize |-> [x |-> 0, y |-> 0, w |-> r[3], h |-> r[4]],
     sourceSize       |-> [w |-> r[3], h |-> r[4]]]

Keys(d) == {d[k].key : k \in 1 .. Len(d)}

\* d[key] = val on an insertion-ordered dict when key is present: it keeps its place
DictReplace(d, key, val) ==
    [k \in 1 .. Len(d) |-> IF d[k].key = key THEN [key |-> key, val |-> val] ELSE d[k]]

\* d[key] = val when key is new: it goes last
DictInsert(d, key, val) == Append(d, [key |-> key, val |-> val])

Min(a, b) == IF a <= b THEN a ELSE b

\* for name, (x, y, w, h) in zip(name_order, rects): frames_json[name] = {...}
\* zip stops at the end of the shorter list
RECURSIVE BuildManifest(_, _, _, _)
BuildManifest(names, rs, k, d) ==
    IF k > Min(Len(names), Len(rs))
    THEN d
    ELSE IF names[k] \in Keys(d)
         THEN BuildManifest(names, rs, k + 1, DictReplace(d, names[k], Entry(rs[k])))
         ELSE BuildManifest(names, rs, k + 1, DictInsert(d, names[k], Entry(rs[k])))

----------------------------------------------------------------------------
(* main as a run: one step per statement group, failures at the I/O calls *)

InitArgs ==
    { [id |-> i, frame_width |-> s[1], frame_height |-> s[2],
       start_col |-> sc, walk_frames |-> c,
       front_row |-> r[1], back_row |-> r[2], left_row |-> r[3], right_row |-> r[4],
       static_col |-> st, atlas_cols |-> ac] :
         i \in Ids, s \in FrameSizes, sc \in 0 .. MaxCol, c \in 0 .. MaxWalk,
         r \in RowChoices, st \in 0 .. MaxCol, ac \in 0 .. MaxAtlasCols }

NoFiles == [png |-> "absent", json |-> "absent"]
\* no command line: the function-level runs take their inputs from `unit`
NoArgs ==
    [id |-> "", frame_width |-> 0, frame_height |-> 0, start_col |-> 0, walk_frames |-> 0,
     front_row |-> 0, back_row |-> 0, left_row |-> 0, right_row |-> 0,
     static_col |-> 0, atlas_cols |-> 0]

\* inputs of the function-level runs; main leaves them alone
NoUnit ==
    [id |-> "", frame_w |-> 0, frame_h |-> 0, row |-> 0, dir |-> "", start_col |-> 0,
     count |-> 0, walk_frames |-> 0, cols |-> 0, names_in |-> <<>>, rects_in |-> <<>>,
     pending |-> {}, order |-> <<>>]

Blank ==
    /\ sheet = NoImage
    /\ frames = <<>>
    /\ images = <<>>
    /\ name_order = <<>>
    /\ atlas = NoImage
    /\ rects = <<>>
    /\ frames_json = <<>>
    /\ fs = NoFiles
    /\ err = ""

Init ==
    /\ args \in InitArgs
    /\ pc = "load"
    /\ unit = NoUnit
    /\ Blank

Fail(why) ==
    /\ pc' = "failed"
    /\ err' = why

\* line 56: Image.open(args.image).convert("RGBA")
Load ==
    /\ pc = "load"
    /\ \/ /\ sheet' = LoadedSheet
          /\ pc' = "collect"
          /\ UNCHANGED err
       \/ /\ Fail("load")
          /\ UNCHANGED sheet
    /\ UNCHANGED <<args, frames, images, name_order, atlas, rects, frames_json, fs, unit>>

\* lines 59-80
Collect ==
    /\ pc = "collect"
    /\ LET st == WalkCycles(sheet, args, 1,
                    StaticPoses(sheet, args, 1, [images |-> <<>>, names |-> <<>>]))
       IN /\ images' = st.images
          /\ name_order' = st.names
    /\ pc' = "pack"
    /\ UNCHANGED <<args, sheet, frames, atlas, rects, frames_json, fs, err, unit>>

\* line 83; len(frames) / cols raises ZeroDivisionError for --atlas-cols 0
Pack ==
    /\ pc = "pack"
    /\ \/ /\ args.atlas_cols >= 1
          /\ LET st == paste_frames_to_atlas(images, args.frame_width,
                                             args.frame_height, args.atlas_cols)
             IN /\ atlas' = st.atlas
                /\ rects' = st.rects
          /\ pc' = "manifest"
          /\ UNCHANGED err
       \/ /\ args.atlas_cols = 0
          /\ Fail("ZeroDivisionError")
          /\ UNCHANGED <<atlas, rects>>
    /\ UNCHANGED <<args, sheet, frames, images, name_order, frames_json, fs, unit>>

\* lines 86-94
Manifest ==
    /\ pc = "manifest"
    /\ frames_json' = BuildManifest(name_order, rects, 1, <<>>)
    /\ pc' = "mkdir"
    /\ UNCHANGED <<args, sheet, frames, images, name_order, atlas, rects, fs, err, unit>>

\* lines 96-99
Mkdir ==
    /\ pc = "mkdir"
    /\ \/ pc' = "save" /\ UNCHANGED err
       \/ Fail("mkdir")
    /\ UNCHANGED <<args, sheet, frames, images, name_order, atlas, rects, frames_json, fs, unit>>

\* line 101: atlas.save(atlas_path); a failed save leaves no file or a cut one
SaveAtlas ==
    /\ pc = "save"
    /\ \/ /\ fs' = [fs EXCEPT !.png = "complete"]
          /\ pc' = "json"
          /\ UNCHANGED err
       \/ /\ \E left \in {"absent", "partial"} : fs' = [fs EXCEPT !.png = left]
          /\ Fail("save")
    /\ UNCHANGED <<args, sheet, frames, images, name_order, atlas, rects, frames_json, unit>>

\* lines 102-103: open(json_path, "w") and json.dump
WriteJson ==
    /\ pc = "json"
    /\ \/ /\ fs' = [fs EXCEPT !.json = "complete"]
          /\ pc' = "done"
          /\ UNCHANGED err
       \/ /\ Fail("open")
          /\ UNCHANGED fs
       \/ /\ fs' = [fs EXCEPT !.json = "partial"]
          /\ Fail("dump")
    /\ UNCHANGED <<args, sheet, frames, images, name_order, atlas, rects, frames_json, unit>>

Next ==
    \/ Load
    \/ Collect
    \/ Pack
    \/ Manifest
    \/ Mkdir
    \/ SaveAtlas
    \/ WriteJson

Spec == Init /\ [][Next]_vars

----------------------------------------------------------------------------
(* The functions on their own: slice_frames, the walk-cycle body of main,     *)
(* paste_frames_to_atlas and the manifest loop, each applied to drawn inputs. *)

\* a direction with its row; the last row lies below the sheet
UnitDirRows == {<<"front", 0>>, <<"left", 2>>, <<"right", 4>>}

UnitInit ==
    /\ args = NoArgs
    /\ \E s \in FrameSizes, dr \in UnitDirRows, sc \in 0 .. MaxCol, c \in 0 .. MaxWalk :
          unit = [NoUnit EXCEPT !.id = "hero", !.frame_w = s[1], !.frame_h = s[2],
                                !.dir = dr[1], !.row = dr[2], !.start_col = sc, !.count = c]
    /\ pc = "u_slice"
    /\ Blank

\* slice_frames(sheet, frame_w, frame_h, row, start_col, count) on the loaded sheet
USlice ==
    /\ pc = "u_slice"
    /\ sheet' = LoadedSheet
    /\ frames' = slice_frames(LoadedSheet, unit.frame_w, unit.frame_h,
                              unit.row, unit.start_col, unit.count)
    /\ pc' = "u_reconcile"
    /\ UNCHANGED <<args, images, name_order, atlas, rects, frames_json, fs, err, unit>>

\* lines 76-77 for a requested --walk-frames
UReconcile ==
    /\ pc = "u_reconcile"
    /\ \E wf \in 0 .. MaxWalk :
          /\ unit' = [unit EXCEPT !.walk_frames = wf]
          /\ frames' = Reconcile(wf, frames)
    /\ pc' = "u_name"
    /\ UNCHANGED <<args, sheet, images, name_order, atlas, rects, frames_json, fs, err>>

\* lines 78-80 on empty lists
UName ==
    /\ pc = "u_name"
    /\ LET st == NameFrames(unit.id, unit.dir, frames, [images |-> <<>>, names |-> <<>>])
       IN /\ images' = st.images
          /\ name_order' = st.names
    /\ pc' = "u_pack"
    /\ UNCHANGED <<args, sheet, frames, atlas, rects, frames_json, fs, err, unit>>

\* paste_frames_to_atlas(images, frame_w, frame_h, cols) for cols >= 1
UPack ==
    /\ pc = "u_pack"
    /\ \E cols \in 1 .. MaxAtlasCols :
          /\ unit' = [unit EXCEPT !.cols = cols]
          /\ LET st == paste_frames_to_atlas(images, unit.frame_w, unit.frame_h, cols)
             IN /\ atlas' = st.atlas
                /\ rects' = st.rects
    /\ pc' = "u_zip"
    /\ UNCHANGED <<args, sheet, frames, images, name_order, frames_json, fs, err>>

\* lines 86-94 on a name list and a rect list that may have lost their last items
UZip ==
    /\ pc = "u_zip"
    /\ \E dn \in 0 .. MaxDrop, dr \in 0 .. MaxDrop :
          LET names == SubSeq(name_order, 1, Len(name_order) - dn)
              rs    == SubSeq(rects, 1, Len(rects) - dr)
          IN /\ unit' = [unit EXCEPT !.names_in = names, !.rects_in = rs]
             /\ frames_json' = BuildManifest(names, rs, 1, <<>>)
    /\ pc' = "u_done"
    /\ UNCHANGED <<args, sheet, frames, images, name_order, atlas, rects, fs, err>>

UnitNext ==
    \/ USlice
    \/ UReconcile
    \/ UName
    \/ UPack
    \/ UZip

SpecUnit == UnitInit /\ [][UnitNext]_vars

----------------------------------------------------------------------------
(* The paste steps of lines 29-35 taken in any order *)

ParInit ==
    /\ args = NoArgs
    /\ \E s \in FrameSizes, dr \in UnitDirRows, sc \in 0 .. MaxCol,
          n \in 0 .. MaxParFrames, cols \in 1 .. MaxAtlasCols :
          /\ unit = [NoUnit EXCEPT !.id = "hero", !.frame_w = s[1], !.frame_h = s[2],
                                   !.dir = dr[1], !.row = dr[2], !.start_col = sc,
                                   !.count = n, !.cols = cols]
          /\ frames = slice_frames(LoadedSheet, s[1], s[2], dr[2], sc, n)
    /\ pc = "p_new"
    /\ sheet = LoadedSheet
    /\ images = <<>>
    /\ name_order = <<>>
    /\ atlas = NoImage
    /\ rects = <<>>
    /\ frames_json = <<>>
    /\ fs = NoFiles
    /\ err = ""

\* lines 24-28: the blank atlas and the empty rect list
PNew ==
    /\ pc = "p_new"
    /\ LET size == AtlasSize(Len(frames), unit.frame_w, unit.frame_h, unit.cols)
       IN atlas' = NewImage(size[1], size[2])
    /\ rects' = <<>>
    /\ unit' = [unit EXCEPT !.pending = 0 .. (Len(frames) - 1)]
    /\ pc' = "p_paste"
    /\ UNCHANGED <<args, sheet, frames, images, name_order, frames_json, fs, err>>

\* lines 30-35 for one index not pasted yet; its rect is recorded under the index
PStep ==
    /\ pc = "p_paste"
    /\ \E idx \in unit.pending :
          LET o == CellOrigin(idx, unit.frame_w, unit.frame_h, unit.cols)
          IN /\ atlas' = paste(atlas, frames[idx + 1], o[1], o[2])
             /\ rects' = (idx + 1 :> RectOf(idx, unit.frame_w, unit.frame_h, unit.cols)) @@ rects
             /\ unit' = [unit EXCEPT !.pending = @ \ {idx}, !.order = Append(@, idx)]
    /\ UNCHANGED <<args, pc, sheet, frames, images, name_order, frames_json, fs, err>>

\* line 36
PReturn ==
    /\ pc = "p_paste"
    /\ unit.pending = {}
    /\ pc' = "p_done"
    /\ UNCHANGED <<args, sheet, frames, images, name_order, atlas, rects, frames_json, fs, err, unit>>

ParNext ==
    \/ PNew
    \/ PStep
    \/ PReturn

SpecPar == ParInit /\ [][ParNext]_vars

----------------------------------------------------------------------------
(* What the properties are stated with.  These are written from the        *)
(* statements, not from the operators above.                                *)

Digit(n) == SubSeq("0123456789", n + 1, n + 1)

\* i written with four digits, for 0 <= i < 10000
FourDigits(i) ==
    Digit((i \div 1000) % 10) \o Digit((i \div 100) % 10)
        \o Digit((i \div 10) % 10) \o Digit(i % 10)

\* extraction order of the directions
OrderedDirs == <<"front", "back", "left", "right">>

OrderedRow(d) ==
    CASE d = 1 -> args.front_row
      [] d = 2 -> args.back_row
      [] d = 3 -> args.left_row
      [] d = 4 -> args.right_row

\* the w x h cell of the loaded sheet whose top-left corner is (x0, y0)
SheetCell(x0, y0, w, h) ==
    [w |-> w, h |-> h,
     px |-> [p \in Pixels(w, h) |->
                IF <<x0 + p[1], y0 + p[2]>> \in DOMAIN sheet.px
                THEN sheet.px[<<x0 + p[1], y0 + p[2]>>]
                ELSE Transparent]]

\* name and frame expected at position k (1-based) of a run with c walk frames
NameAt(k, c) ==
    IF k <= 4
    THEN args.id \o "-" \o OrderedDirs[k]
    ELSE args.id \o "-" \o OrderedDirs[1 + ((k - 5) \div c)] \o "-walk-"
            \o FourDigits((k - 5) % c)

CellAt(k, c) ==
    IF k <= 4
    THEN SheetCell(args.static_col * args.frame_width,
                   OrderedRow(k) * args.frame_height,
                   args.frame_width, args.frame_height)
    ELSE SheetCell((args.start_col + ((k - 5) % c)) * args.frame_width,
                   OrderedRow(1 + ((k - 5) \div c)) * args.frame_height,
                   args.frame_width, args.frame_height)

\* main has filled images and name_order / frames_json
Collected ==
    \/ pc \in {"pack", "manifest", "mkdir", "save", "json", "done"}
    \/ pc = "failed" /\ err # "load"

Assembled ==
    \/ pc \in {"mkdir", "save", "json", "done"}
    \/ pc = "failed" /\ err \in {"mkdir", "save", "open", "dump"}

RunEnded == pc \in {"done", "failed"}

Inside(img, f) ==
    /\ f.x >= 0 /\ f.y >= 0
    /\ f.x + f.w <= img.w /\ f.y + f.h <= img.h

\* the pixels of img inside rect f, as an image of its own
Region(img, f) ==
    [w |-> f.w, h |-> f.h,
     px |-> [p \in Pixels(f.w, f.h) |-> img.px[<<f.x + p[1], f.y + p[2]>>]]]

RectPixels(r) == (r[1] .. (r[1] + r[3] - 1)) \X (r[2] .. (r[2] + r[4] - 1))

RectInside(r, w, h) ==
    /\ r[1] >= 0 /\ r[2] >= 0
    /\ r[1] + r[3] <= w /\ r[2] + r[4] <= h

\* the frame slice_frames is to return at loop index i, for the drawn inputs
UnitCell(i) ==
    SheetCell((unit.start_col + i) * unit.frame_w, unit.row * unit.frame_h,
              unit.frame_w, unit.frame_h)

Packed == pc \in {"u_zip", "u_done"}

----------------------------------------------------------------------------
(* Properties *)

\* C1: the rects paste_frames_to_atlas returns for distinct indices share no pixel
\* (any frame list of length n >= 0, any cols >= 1, frame_w, frame_h >= 1).
C1_RectsDisjoint ==
    Packed =>
        \A i, j \in 1 .. Len(rects) :
            i # j => RectPixels(rects[i]) \cap RectPixels(rects[j]) = {}

C1_Witness ==
    /\ pc = "u_zip"
    /\ unit.cols >= 2
    /\ Len(rects) > 2 * unit.cols
    /\ unit.frame_w >= 2

\* C2: after a complete run of main, every name of the manifest is the name of an
\* extracted frame, its rect lies in the atlas, and the atlas pixels inside the rect
\* are those of the sheet cell of that name's direction row and column.
C2_RoundTrip ==
    pc = "done" =>
        LET c == args.walk_frames
        IN \A e \in 1 .. Len(frames_json) :
              \E k \in 1 .. (4 + 4 * c) :
                  /\ frames_json[e].key = NameAt(k, c)
                  /\ Inside(atlas, frames_json[e].val.frame)
                  /\ Region(atlas, frames_json[e].val.frame) = CellAt(k, c)

C2_Witness ==
    /\ pc = "done"
    /\ args.walk_frames >= 2
    /\ args.atlas_cols >= 2
    /\ args.back_row # args.left_row
    /\ \E e \in 1 .. Len(frames_json) :
          /\ frames_json[e].key = args.id \o "-left-walk-0001"
          /\ \E p \in DOMAIN Region(atlas, frames_json[e].val.frame).px :
                Region(atlas, frames_json[e].val.frame).px[p] # Transparent

\* C3: a run that has ended has produced both output files complete or neither of
\* them: no run ends with atlas.png written and atlas.json missing or half-written.
C3_NoAtlasWithoutManifest ==
    RunEnded => ~(fs.png = "complete" /\ fs.json \in {"absent", "partial"})

C5_NamesInExtractionOrder ==
    LET c == args.walk_frames
    IN /\ Collected =>
            /\ Len(name_order) = Len(images)
            /\ Len(name_order) = 4 + 4 * c
            /\ \A k \in 1 .. Len(name_order) :
                  /\ name_order[k] = NameAt(k, c)
                  /\ images[k] = CellAt(k, c)
       /\ Assembled =>
            /\ Len(frames_json) = Len(name_order)
            /\ \A k \in 1 .. Len(frames_json) : frames_json[k].key = name_order[k]

C5_Witness ==
    /\ pc = "done"
    /\ args.walk_frames = 2
    /\ args.id = "hero"
    /\ [k \in 1 .. Len(frames_json) |-> frames_json[k].key] =
          <<"hero-front", "hero-back", "hero-left", "hero-right",
            "hero-front-walk-0000", "hero-front-walk-0001",
            "hero-back-walk-0000", "hero-back-walk-0001",
            "hero-left-walk-0000", "hero-left-walk-0001",
            "hero-right-walk-0000", "hero-right-walk-0001">>

\* C6: paste_frames_to_atlas returns a bitmap cols*frame_w wide and
\* ceil(n/cols)*frame_h high and n rects in input order, rect idx being
\* ((idx mod cols)*frame_w, (idx div cols)*frame_h, frame_w, frame_h); every rect
\* lies in the bitmap and no lower multiple of frame_h would hold them all; n = 0
\* gives a bitmap of height 0 and no rect.
C6_AtlasGeometry ==
    Packed =>
        LET n == Len(images)
            cols == unit.cols
            rows == CHOOSE r \in 0 .. n :
                        /\ r * cols >= n
                        /\ \A q \in 0 .. n : q * cols >= n => r <= q
        IN /\ atlas.w = cols * unit.frame_w
           /\ atlas.h = rows * unit.frame_h
           /\ DOMAIN atlas.px = Pixels(atlas.w, atlas.h)
           /\ Len(rects) = n
           /\ \A idx \in 0 .. (n - 1) :
                 /\ rects[idx + 1] = <<(idx % cols) * unit.frame_w,
                                       (idx \div cols) * unit.frame_h,
                                       unit.frame_w, unit.frame_h>>
                 /\ RectInside(rects[idx + 1], atlas.w, atlas.h)
           /\ \A m \in 0 .. (rows - 1) :
                 \E idx \in 1 .. n : ~RectInside(rects[idx], atlas.w, m * unit.frame_h)
           /\ n = 0 => atlas.h = 0 /\ rects = <<>>

C6_Witness ==
    /\ pc = "u_zip"
    /\ unit.cols >= 2
    /\ Len(images) > unit.cols
    /\ Len(images) % unit.cols # 0
    /\ atlas.h = ((Len(images) \div unit.cols) + 1) * unit.frame_h

\* C7: slice_frames returns exactly count frames (count >= 0), the frame at
\* position i being the frame_w x frame_h crop of the sheet at
\* ((start_col+i)*frame_w, row*frame_h), also where that lies off the sheet.
C7_SliceExact ==
    pc = "u_reconcile" =>
        /\ Len(frames) = unit.count
        /\ \A i \in 0 .. (unit.count - 1) : frames[i + 1] = UnitCell(i)

C7_Witness ==
    /\ pc = "u_reconcile"
    /\ unit.count >= 3
    /\ Len(frames) = unit.count
    /\ unit.row = 0
    /\ unit.start_col = 1
    /\ (unit.start_col + unit.count - 1) * unit.frame_w >= SheetW
    /\ frames[1] # frames[2]

C10_NamesUnique ==
    LET c == args.walk_frames
    IN /\ Collected =>
            Cardinality({name_order[k] : k \in 1 .. Len(name_order)}) = Len(name_order)
       /\ Assembled =>
            /\ Cardinality(Keys(frames_json)) = Len(images)
            /\ Cardinality(Keys(frames_json)) = 4 + 4 * c
            /\ Len(frames_json) = 4 + 4 * c
            /\ \A k \in 1 .. Len(frames_json) :
                  LET v == frames_json[k].val
                  IN /\ v.frame.w = args.frame_width
                     /\ v.frame.h = args.frame_height
                     /\ v.spriteSourceSize.w = args.frame_width
                     /\ v.spriteSourceSize.h = args.frame_height
                     /\ v.sourceSize.w = args.frame_width
                     /\ v.sourceSize.h = args.frame_height

C10_Witness ==
    /\ pc = "done"
    /\ args.walk_frames = 9
    /\ Cardinality(Keys(frames_json)) = 40
    /\ Len(images) = 40

====
